---- MODULE Spec2Model ----
(***************************************************************************)
(* Model of pgAdmin 4's ServerManager                                      *)
(* (web/pgadmin/utils/driver/psycopg2/server_manager.py): the registry of  *)
(* Connections of one server, its SSH tunnel, the snapshot kept in the     *)
(* HTTP session and the restore of the registry from that snapshot.        *)
(*                                                                         *)
(* Python's None is the string "None" for string-valued fields and the     *)
(* empty sequence for sversion (an integer when present: <<120003>>).      *)
(* A dict is a sequence of entries in insertion order, as in Python 3.7+.  *)
(***************************************************************************)
EXTENDS Integers, Sequences, FiniteSets, TLC

None == "None"

\* ---------------------------------------------------------------- bounds
\* Connections the registry holds at a time.
MaxConns == 2

\* ---------------------------------------------------------------- inputs
Databases == {"postgres"}
ConnIds == {"7"}
Dids == {"d1", "d9"}
\* pg_database as seen by the query of connection(): d1 is the oid of
\* database postgres, d9 the oid of no database.
Catalog(did) == IF did = "d1" THEN "postgres" ELSE None

\* Server rows that update() can be given.
Servers ==
  { [use_ssh_tunnel |-> 0, maintenance_db |-> "postgres",
     password |-> "pw", tunnel_password |-> None],
    [use_ssh_tunnel |-> 1, maintenance_db |-> "postgres",
     password |-> None, tunnel_password |-> "tp"] }

\* Version string, version number and server type one server reports.
SrvVer == "PostgreSQL 12.3"
SrvSversion == <<120003>>
SrvType == "pg"

\* What can happen when a tunnel is created and when a Connection connects.
TunnelOracles == {"ok", "unauthorized", "decrypt_failed", "start_failed"}
ConnectOracles == {"ok", "failed", "error"}

\* ---------------------------------------------------------------- dicts
Range(s) == {s[i] : i \in 1..Len(s)}
KeysOf(d) == {d[i].key : i \in 1..Len(d)}
Has(d, k) == \E i \in 1..Len(d) : d[i].key = k
Idx(d, k) == CHOOSE i \in 1..Len(d) : d[i].key = k
Get(d, k) == d[Idx(d, k)].val
Remove(d, k) == SelectSeq(d, LAMBDA e : e.key # k)
Put(d, k, v) ==
  IF Has(d, k) THEN [d EXCEPT ![Idx(d, k)] = [key |-> k, val |-> v]]
  ELSE Append(d, [key |-> k, val |-> v])
MapVals(d, F(_)) == [i \in 1..Len(d) |-> [key |-> d[i].key, val |-> F(d[i].val)]]

\* u'CONN:{0}'.format(conn_id) and u'DB:{0}'.format(database); a None database
\* formats as 'DB:None'.
ConnKey(conn_id) == "CONN:" \o conn_id
DbKey(database) == "DB:" \o database
\* conn_id.startswith('CONN:')
IsConnKey(k) == \E c \in ConnIds : k = ConnKey(c)

\* The manager object (self), the session-store entry of its sid, and the
\* last call with its outcome; the background job; the requests of one
\* session that run update_session() at the same time, with the session's
\* '__pgsql_server_managers' entry.
VARIABLES mgr, session, ret, job, web

vars == <<mgr, session, ret, job, web>>

\* ------------------------------------------------------------ call frames
\* A call runs on a frame: the manager, the session entry, whether the
\* secret-decryption key is available during the call (get_crypt_key()[0]),
\* the events so far (tunnel creation, liveness checks, connect attempts,
\* teardowns, in program order), the exception raised ("none" when the call
\* returns) and the returned value.
Frame(m, s, ck) ==
  [m |-> m, session |-> s, crypt_key |-> ck,
   trace |-> <<>>, exc |-> "none", rv |-> None]
\* An event records, besides its name and the key (or exception) it is about,
\* whether a tunnel counted as created and whether its forwarder was active
\* at that moment.
Log(w, ev, key) ==
  [w EXCEPT !.trace = Append(@, [ev |-> ev, key |-> key,
                                 created |-> w.m.tunnel_created,
                                 active |-> w.m.tunnel_object = "active"])]
Raise(w, e) == [Log(w, "raise", e) EXCEPT !.exc = e]
Return(w, v) == [w EXCEPT !.rv = v]

\* ----------------------------------------------------------- SSH tunnel
\* The forwarder handle: None, "inactive" (constructed, start() failed),
\* "active" (started, SSH session up) or "dropped" (started, SSH session
\* lost since: is_active is false, stop() was never called).
Started == {"active", "dropped"}

\* A faulty create_ssh_tunnel(): tunnel_created is set before the forwarder
\* is started, and stays set when start() fails.
create_ssh_tunnel_eager(w, tunnel_pw, key, o) ==
  IF o = "unauthorized" THEN Return(Log(w, "create_failed", key), "False")
  ELSE IF tunnel_pw # None /\ tunnel_pw # "" /\ ~w.crypt_key
    THEN Raise(w, "CryptKeyMissing")
  ELSE IF tunnel_pw # None /\ tunnel_pw # "" /\ o = "decrypt_failed"
    THEN Return(Log(w, "create_failed", key), "False")
  ELSE LET w1 == Log(w, "forwarder", w.m.tunnel_object)
       IN IF o = "start_failed"
          THEN Return(Log([w1 EXCEPT !.m.tunnel_object = "inactive",
                                     !.m.tunnel_created = TRUE],
                          "create_failed", key), "False")
          ELSE Return(Log([w1 EXCEPT !.m.tunnel_object = "active",
                                     !.m.tunnel_created = TRUE,
                                     !.m.local_bind_port = "port"],
                          "create_ok", key), "True")

\* create_ssh_tunnel(tunnel_password), called on behalf of connection `key`;
\* o says what the user lookup, the decryption and the forwarder do. The
\* "forwarder" event records the handle that the assignment of a new
\* SSHTunnelForwarder to self.tunnel_object replaces.
create_ssh_tunnel(w, tunnel_pw, key, o) ==
  IF o = "unauthorized" THEN Return(Log(w, "create_failed", key), "False")
  ELSE IF tunnel_pw # None /\ tunnel_pw # "" /\ ~w.crypt_key
    THEN Raise(w, "CryptKeyMissing")
  ELSE IF tunnel_pw # None /\ tunnel_pw # "" /\ o = "decrypt_failed"
    THEN Return(Log(w, "create_failed", key), "False")
  ELSE LET w1 == Log(w, "forwarder", w.m.tunnel_object)
       IN IF o = "start_failed"
          THEN Return(Log([w1 EXCEPT !.m.tunnel_object = "inactive"],
                          "create_failed", key), "False")
          ELSE Return(Log([w1 EXCEPT !.m.tunnel_object = "active",
                                     !.m.tunnel_created = TRUE,
                                     !.m.local_bind_port = "port"],
                          "create_ok", key), "True")

\* check_ssh_tunnel_alive()
check_ssh_tunnel_alive(w, key) ==
  IF w.m.tunnel_object = None \/ w.m.tunnel_object # "active"
  THEN Raise(Log([w EXCEPT !.m.tunnel_created = FALSE], "check", key),
             "SSHTunnelConnectionLost")
  ELSE Log(w, "check", key)

\* stop_ssh_tunnel()
stop_ssh_tunnel(w) ==
  IF w.m.tunnel_object # None /\ w.m.tunnel_object = "active"
  THEN Log([w EXCEPT !.m.local_bind_port = None,
                     !.m.tunnel_object = None,
                     !.m.tunnel_created = FALSE], "tunnel_stop", None)
  ELSE w

\* ------------------------------------------------------------ Connection
\* Connection(manager, conn_id, db, auto_reconnect, async_, ...): a new,
\* never connected Connection.
NewConnection(conn_id, database, auto_reconnect, async_, ubp, ats) ==
  [conn_id |-> conn_id, db |-> database,
   auto_reconnect |-> auto_reconnect, async_ |-> async_,
   use_binary_placeholder |-> ubp, array_to_string |-> ats,
   wasConnected |-> FALSE, conn |-> FALSE]

\* Connection.connected()
connected(c) == c.conn

\* Connection._release(): drops the native handle.
conn_release(c) == [c EXCEPT !.conn = FALSE]

\* Connection.as_dict(): the key, the target database, the reconnect policy,
\* the transport flags and wasConnected.
conn_as_dict(c) ==
  << [conn_id |-> c.conn_id, database |-> c.db, async_ |-> c.async_,
           wasConnected |-> c.wasConnected,
           auto_reconnect |-> c.auto_reconnect,
           use_binary_placeholder |-> c.use_binary_placeholder,
           array_to_string |-> c.array_to_string] >>

SetConn(w, key, c) == [w EXCEPT !.m.connections = Put(@, key, c)]

\* The transport-level part of Connection.connect(): decrypt the stored or
\* given secret, open the session, record the server's version on success.
conn_transport(w, key, pw, o) ==
  LET c == Get(w.m.connections, key)
      w1 == Log(w, "transport", key)
  IN IF (pw # None \/ w.m.password # None) /\ ~w.crypt_key
       THEN Raise(w, "CryptKeyMissing")
     ELSE IF o = "ok"
       THEN Return(Log(SetConn([w1 EXCEPT !.m.ver = SrvVer,
                                          !.m.sversion = SrvSversion,
                                          !.m.server_type = SrvType],
                               key, [c EXCEPT !.conn = TRUE,
                                              !.wasConnected = TRUE]),
                       "connected", key),
                   "True")
     ELSE IF o = "failed" THEN Return(w1, "False")
     ELSE Raise(w1, "OperationalError")

\* Connection.connect(password): creates the tunnel first when the identity
\* asks for one and none was created.
conn_connect(w, key, pw, o, ot) ==
  LET w0 == Log(w, "connect", key)
  IN IF w0.m.use_ssh_tunnel = 1 /\ ~w0.m.tunnel_created
     THEN LET w1 == create_ssh_tunnel(w0, w0.m.tunnel_password, key, ot)
          IN IF w1.exc # "none" THEN w1
             ELSE IF w1.rv = "False" THEN Raise(w1, "SSHTunnelConnectionLost")
             ELSE conn_transport(w1, key, pw, o)
     ELSE conn_transport(w0, key, pw, o)

\* ------------------------------------------------------------ ServerManager
\* ServerManager.as_dict(): None (the empty sequence) or the snapshot.
as_dict(m) ==
  IF m.ver = None \/ Len(m.connections) = 0 THEN <<>>
  ELSE << [ver |-> m.ver, sversion |-> m.sversion, password |-> m.password,
           has_tunnel_password |-> (m.use_ssh_tunnel # 0),
           tunnel_password |->
             IF m.use_ssh_tunnel # 0 THEN m.tunnel_password ELSE None,
           connections |->
             LET ds == MapVals(m.connections, conn_as_dict)
             IN MapVals(SelectSeq(ds, LAMBDA e : e.val # <<>>),
                        LAMBDA v : v[1])] >>

\* A faulty update_session(): the session is left as it was.
update_session_skip(w) == w

\* ServerManager.update_session(): the sid's entry is popped when as_dict()
\* is None and replaced by the snapshot otherwise.
update_session(w) == [w EXCEPT !.session = as_dict(w.m)]

\* The loop of update() and of release(): _release() on every Connection.
RECURSIVE release_each(_, _, _)
release_each(w, i, cancel) ==
  IF i > Len(w.m.connections) THEN w
  ELSE LET e == w.m.connections[i]
           w1 == IF cancel /\ connected(e.val) /\ e.val.conn_id # None
                    /\ IsConnKey(e.val.conn_id)
                 THEN Log(w, "cancel", e.key) ELSE w
           w2 == Log([w1 EXCEPT !.m.connections[i].val = conn_release(e.val)],
                     "teardown", e.key)
       IN release_each(w2, i + 1, cancel)

\* A faulty update(): the identity is replaced and the registry emptied, but
\* _release() is not called on the Connections it held.
update_without_release(w, server) ==
  LET w1 == [w EXCEPT !.m.ver = None, !.m.sversion = <<>>,
                      !.m.server_type = None,
                      !.m.db = server.maintenance_db,
                      !.m.password = server.password,
                      !.m.db_info = <<>>,
                      !.m.use_ssh_tunnel = server.use_ssh_tunnel,
                      !.m.tunnel_password = server.tunnel_password]
      w3 == update_session(Log(w1, "pinged", None))
  IN [w3 EXCEPT !.m.connections = <<>>]

\* ServerManager.update(server)
update(w, server) ==
  LET w1 == [w EXCEPT !.m.ver = None, !.m.sversion = <<>>,
                      !.m.server_type = None,
                      !.m.db = server.maintenance_db,
                      !.m.password = server.password,
                      !.m.db_info = <<>>,
                      !.m.use_ssh_tunnel = server.use_ssh_tunnel,
                      !.m.tunnel_password = server.tunnel_password]
      w2 == release_each(Log(w1, "pinged", None), 1, FALSE)
      w3 == update_session(w2)
  IN [w3 EXCEPT !.m.connections = <<>>]

\* ServerManager.__init__(server)
init(server, s, ck) ==
  update(Frame([use_ssh_tunnel |-> 0, db |-> None, password |-> None,
                tunnel_password |-> None, ver |-> None, sversion |-> <<>>,
                server_type |-> None, connections |-> <<>>, db_info |-> <<>>,
                tunnel_object |-> None, tunnel_created |-> FALSE,
                local_bind_port |-> None], s, ck),
         server)

\* A faulty MajorVersion(): 0 instead of an error when the version is not
\* known.
MajorVersion_default(m) ==
  IF m.sversion # <<>> THEN <<m.sversion[1] \div 10000>> ELSE <<0>>

\* MajorVersion(), MinorVersion(), PatchVersion(): the empty sequence when the
\* call raises Exception("Information is not available."), else the number
\* returned. MinorVersion and PatchVersion test the truth value of sversion,
\* which is false for None and for 0.
MajorVersion(m) ==
  IF m.sversion # <<>> THEN <<m.sversion[1] \div 10000>> ELSE <<>>
MinorVersion(m) ==
  IF m.sversion # <<>> /\ m.sversion[1] # 0
  THEN <<(m.sversion[1] \div 100) % 100>> ELSE <<>>
PatchVersion(m) ==
  IF m.sversion # <<>> /\ m.sversion[1] # 0
  THEN <<(m.sversion[1] \div 100) \div 100>> ELSE <<>>

\* A caller asking for the three parts of the version.
versions(w) ==
  Log(Log(Log(w, "MajorVersion", MajorVersion(w.m)),
          "MinorVersion", MinorVersion(w.m)),
      "PatchVersion", PatchVersion(w.m))

\* Lines 178-216 of connection(): the database the call resolves to; the
\* frame's rv is that database (None when none was resolved).
resolve_database(w, database, did, o, ot) ==
  IF database # None
  THEN Return(IF did # None /\ Has(w.m.db_info, did)
              THEN [w EXCEPT !.m.db_info = Put(@, did, database)] ELSE w,
              database)
  ELSE IF did = None THEN Return(w, w.m.db)
  ELSE IF Has(w.m.db_info, did) THEN Return(w, Get(w.m.db_info, did))
  ELSE LET mid == DbKey(w.m.db)
       IN IF ~Has(w.m.connections, mid) THEN Return(w, None)
          ELSE LET w1 == IF ~connected(Get(w.m.connections, mid))
                         THEN conn_connect(w, mid, None, o, ot) ELSE w
               IN IF w1.exc # "none" THEN w1
                  ELSE IF ~connected(Get(w1.m.connections, mid))
                    THEN Return(w1, None)
                  ELSE IF Catalog(did) # None
                    THEN Return([w1 EXCEPT !.m.db_info =
                                              Put(@, did, Catalog(did))],
                                Catalog(did))
                  ELSE Raise(w1, "DatabaseNotFound")

\* A faulty lookup: a Connection is constructed and registered on every
\* call, replacing the one the key had.
construct_always(w, my_id, database, conn_id, auto_reconnect, async_, ubp, ats) ==
  LET a == IF async_ = None
           THEN (IF conn_id # None THEN 1 ELSE 0)
           ELSE (IF async_ = "True" THEN 1 ELSE 0)
      c == NewConnection(my_id, database, auto_reconnect, a, ubp, ats)
  IN Return(Log([w EXCEPT !.m.connections = Put(@, my_id, c)],
                "created", my_id), my_id)

\* Lines 229-247 of connection(): the registry lookup, and the construction
\* of a Connection when the key is not registered.
lookup_or_create(w, my_id, database, conn_id, auto_reconnect, async_, ubp, ats) ==
  IF Has(w.m.connections, my_id) THEN Return(w, my_id)
  ELSE LET a == IF async_ = None
                THEN (IF conn_id # None THEN 1 ELSE 0)
                ELSE (IF async_ = "True" THEN 1 ELSE 0)
           c == NewConnection(my_id, database, auto_reconnect, a, ubp, ats)
       IN Return(Log([w EXCEPT !.m.connections = Put(@, my_id, c)],
                     "created", my_id), my_id)

\* A faulty connection(): a call that resolved no database goes on to the
\* registry instead of raising.
connection_unresolved(w, database, conn_id, auto_reconnect, did, async_, ubp, ats, o, ot) ==
  LET w1 == resolve_database(w, database, did, o, ot)
      dbname == w1.rv
      my_id == IF conn_id # None THEN ConnKey(conn_id) ELSE DbKey(dbname)
  IN IF w1.exc # "none" THEN w1
     ELSE IF ~w1.crypt_key THEN Raise(Return(w1, None), "CryptKeyMissing")
     ELSE lookup_or_create(Log(w1, "pinged", None), my_id, dbname,
                           conn_id, auto_reconnect, async_, ubp, ats)

\* A faulty connection(): pinged is set on entry, before the checks.
connection_pings_first(w, database, conn_id, auto_reconnect, did, async_, ubp, ats, o, ot) ==
  LET w1 == resolve_database(Log(w, "pinged", None), database, did, o, ot)
      dbname == w1.rv
  IN IF w1.exc # "none" THEN w1
     ELSE IF ~w1.crypt_key THEN Raise(Return(w1, None), "CryptKeyMissing")
     ELSE LET w2 == IF dbname = None
                    THEN (IF w1.m.use_ssh_tunnel = 1
                          THEN check_ssh_tunnel_alive(w1, None)
                          ELSE Raise(w1, "ConnectionLost"))
                    ELSE w1
              my_id == IF conn_id # None THEN ConnKey(conn_id)
                       ELSE DbKey(dbname)
          IN IF w2.exc # "none" THEN Return(w2, None)
             ELSE lookup_or_create(w2, my_id, dbname,
                                   conn_id, auto_reconnect, async_, ubp, ats)

\* ServerManager.connection(database, conn_id, auto_reconnect, did, async_,
\* use_binary_placeholder, array_to_string); rv is the key of the Connection
\* it returns.
connection(w, database, conn_id, auto_reconnect, did, async_, ubp, ats, o, ot) ==
  LET w1 == resolve_database(w, database, did, o, ot)
      dbname == w1.rv
  IN IF w1.exc # "none" THEN w1
     ELSE IF ~w1.crypt_key THEN Raise(Return(w1, None), "CryptKeyMissing")
     ELSE LET w2 == IF dbname = None
                    THEN (IF w1.m.use_ssh_tunnel = 1
                          THEN check_ssh_tunnel_alive(w1, None)
                          ELSE Raise(w1, "ConnectionLost"))
                    ELSE w1
              my_id == IF conn_id # None THEN ConnKey(conn_id)
                       ELSE DbKey(dbname)
          IN IF w2.exc # "none" THEN Return(w2, None)
             ELSE lookup_or_create(Log(w2, "pinged", None), my_id, dbname,
                                   conn_id, auto_reconnect, async_, ubp, ats)

\* A faulty try-body: the tunnel is created when needed, but connect() is
\* called without looking at whether the creation succeeded.
reconnect_unchecked(w, key, has_tp, tunnel_pw, pw, o, ot) ==
  IF w.m.use_ssh_tunnel = 1 /\ ~w.m.tunnel_created
  THEN LET w0 == Log(w, "tunnel_needed", key)
       IN IF ~has_tp THEN Raise(w0, "KeyError")
          ELSE LET w1 == create_ssh_tunnel(w0, tunnel_pw, key, ot)
               IN IF w1.exc # "none" THEN w1
                  ELSE conn_connect(w1, key, pw, o, ot)
  ELSE conn_connect(w, key, pw, o, ot)

\* The try-body of _restore (lines 310-321) and of _restore_connections
\* (lines 344-353): when the identity asks for a tunnel and none was created,
\* create it and check that it is alive; then connect. has_tp says whether
\* the tunnel password can be read (data['tunnel_password'] exists).
reconnect(w, key, has_tp, tunnel_pw, pw, o, ot) ==
  IF w.m.use_ssh_tunnel = 1 /\ ~w.m.tunnel_created
  THEN LET w0 == Log(w, "tunnel_needed", key)
       IN IF ~has_tp THEN Raise(w0, "KeyError")
          ELSE LET w1 == create_ssh_tunnel(w0, tunnel_pw, key, ot)
               IN IF w1.exc # "none" THEN w1
                  ELSE LET w2 == check_ssh_tunnel_alive(w1, key)
                       IN IF w2.exc # "none" THEN w2
                          ELSE conn_connect(w2, key, pw, o, ot)
  ELSE conn_connect(w, key, pw, o, ot)

\* Faulty except clauses: the exception is raised again but the Connection
\* whose reconnect failed stays registered.
after_reconnect_keeps(w, key, wasConnected, auto_reconnect) ==
  IF w.exc = "none" THEN Log(Return(w, None), "passed", key)
  ELSE IF w.exc = "CryptKeyMissing"
    THEN LET c == Get(w.m.connections, key)
         IN Log(Return([SetConn(w, key,
                  [c EXCEPT !.wasConnected = wasConnected,
                            !.auto_reconnect = auto_reconnect])
                        EXCEPT !.exc = "none"], None),
                "kept", key)
  ELSE Return(w, None)

\* Faulty except clauses: CryptKeyMissing is swallowed, but the Connection
\* keeps the flags the failed attempt left it with.
after_reconnect_forgets(w, key, wasConnected, auto_reconnect) ==
  IF w.exc = "none" THEN Log(Return(w, None), "passed", key)
  ELSE IF w.exc = "CryptKeyMissing"
    THEN Log(Return([w EXCEPT !.exc = "none"], None), "kept", key)
  ELSE Log(Return([w EXCEPT !.m.connections = Remove(@, key)], None),
           "popped", key)

\* The except clauses of both loops: CryptKeyMissing keeps the Connection
\* with the flags it had; any other exception pops it and is raised again.
after_reconnect(w, key, wasConnected, auto_reconnect) ==
  IF w.exc = "none" THEN Log(Return(w, None), "passed", key)
  ELSE IF w.exc = "CryptKeyMissing"
    THEN LET c == Get(w.m.connections, key)
         IN Log(Return([SetConn(w, key,
                  [c EXCEPT !.wasConnected = wasConnected,
                            !.auto_reconnect = auto_reconnect])
                        EXCEPT !.exc = "none"], None),
                "kept", key)
  ELSE Log(Return([w EXCEPT !.m.connections = Remove(@, key)], None),
           "popped", key)

\* The loop of _restore over data['connections'] (lines 292-332); oc[i] is
\* what the i-th Connection's connect() does.
RECURSIVE restore_loop(_, _, _, _, _)
restore_loop(w, data, i, oc, ot) ==
  IF i > Len(data.connections) \/ w.exc # "none" THEN w
  ELSE LET conn_info == data.connections[i].val
           key == conn_info.conn_id
           w0 == Log(w, "visit", key)
           w1 == IF Has(w.m.connections, key) THEN w0
                 ELSE Log([w0 EXCEPT
                             !.m.connections = Put(@, key,
                               NewConnection(key,
                                 conn_info.database, conn_info.auto_reconnect,
                                 conn_info.async_,
                                 conn_info.use_binary_placeholder,
                                 conn_info.array_to_string))],
                          "created", key)
       IN IF conn_info.wasConnected /\ conn_info.auto_reconnect
          THEN restore_loop(
                 after_reconnect(
                   reconnect(w1, key, data.has_tunnel_password,
                             data.tunnel_password, data.password, oc[i], ot),
                   key, conn_info.wasConnected, conn_info.auto_reconnect),
                 data, i + 1, oc, ot)
          ELSE restore_loop(w1, data, i + 1, oc, ot)

\* ServerType.types() matched against the version string.
ServerTypeOf(v) == IF v = SrvVer THEN SrvType ELSE None

\* ServerManager._restore(data); masterpass_processed is
\* process_masterpass_disabled().
restore(w, data, masterpass_processed, oc, ot) ==
  LET d1 == [data EXCEPT
               !.password = IF masterpass_processed THEN None ELSE @,
               !.tunnel_password =
                 IF masterpass_processed /\ data.has_tunnel_password
                 THEN None ELSE @]
      w1 == [w EXCEPT !.m.ver = d1.ver, !.m.sversion = d1.sversion]
      w2 == IF w1.m.ver # None /\ w1.m.server_type = None
            THEN [w1 EXCEPT !.m.server_type = ServerTypeOf(w1.m.ver)] ELSE w1
  IN restore_loop(Log(w2, "pinged", None), d1, 1, oc, ot)

\* The loop of _restore_connections (lines 335-364) over the keys the
\* registry held when the call began.
RECURSIVE restore_connections_loop(_, _, _, _, _)
restore_connections_loop(w, keys, i, oc, ot) ==
  IF i > Len(keys) \/ w.exc # "none" THEN w
  ELSE LET conn == Get(w.m.connections, keys[i])
       IN IF conn.wasConnected /\ conn.auto_reconnect
          THEN restore_connections_loop(
                 after_reconnect(
                   reconnect(Log(w, "visit", keys[i]), keys[i], TRUE,
                             w.m.tunnel_password, None, oc[i], ot),
                   keys[i], conn.wasConnected, conn.auto_reconnect),
                 keys, i + 1, oc, ot)
          ELSE restore_connections_loop(Log(w, "visit", keys[i]), keys,
                                        i + 1, oc, ot)

\* ServerManager._restore_connections()
restore_connections(w, oc, ot) ==
  restore_connections_loop(
    w, [i \in 1..Len(w.m.connections) |-> w.m.connections[i].key], 1, oc, ot)

\* Lines 386-404 of release(): the release of one key.
release_key(w, my_id, did) ==
  IF Has(w.m.connections, my_id)
  THEN LET c == Get(w.m.connections, my_id)
           w1 == Log([w EXCEPT !.m.connections = Remove(@, my_id)],
                     "teardown", my_id)
           w2 == IF did # None
                 THEN [w1 EXCEPT !.m.db_info = Remove(@, did)] ELSE w1
           w3 == IF Len(w2.m.connections) = 0
                 THEN [w2 EXCEPT !.m.ver = None, !.m.sversion = <<>>,
                                 !.m.server_type = None, !.m.password = None]
                 ELSE w2
       IN Return(update_session(w3), "True")
  ELSE Return(w, "False")

\* A faulty full release: the Connections are released and the registry is
\* emptied, but the server type is kept.
release_all_keeps_type(w) ==
  LET w1 == release_each(w, 1, TRUE)
      w2 == [w1 EXCEPT !.m.connections = <<>>, !.m.ver = None,
                       !.m.sversion = <<>>, !.m.password = None]
  IN Return(update_session(w2), "True")

\* Lines 406-424 of release(): the release of every Connection.
release_all(w) ==
  LET w1 == release_each(w, 1, TRUE)
      w2 == [w1 EXCEPT !.m.connections = <<>>, !.m.ver = None,
                       !.m.sversion = <<>>, !.m.server_type = None,
                       !.m.password = None]
  IN Return(update_session(w2), "True")

\* A faulty release(): the tunnel is stopped whatever the arguments.
release_stops_first(w, database, conn_id, did) ==
  LET w1 == stop_ssh_tunnel(w)
      known == did # None /\ Has(w1.m.db_info, did)
      dbname == IF known THEN Get(w1.m.db_info, did) ELSE database
      my_id == IF conn_id # None THEN ConnKey(conn_id)
               ELSE IF dbname # None THEN DbKey(dbname) ELSE None
  IN IF did # None /\ (~known \/ dbname = None) THEN Return(w1, "False")
     ELSE IF my_id # None THEN release_key(w1, my_id, did)
     ELSE release_all(w1)

\* ServerManager.release(database, conn_id, did)
release(w, database, conn_id, did) ==
  LET w1 == IF database = None /\ conn_id = None /\ did = None
            THEN stop_ssh_tunnel(w) ELSE w
      known == did # None /\ Has(w1.m.db_info, did)
      dbname == IF known THEN Get(w1.m.db_info, did) ELSE database
      my_id == IF conn_id # None THEN ConnKey(conn_id)
               ELSE IF dbname # None THEN DbKey(dbname) ELSE None
  IN IF did # None /\ (~known \/ dbname = None) THEN Return(w1, "False")
     ELSE IF my_id # None THEN release_key(w1, my_id, did)
     ELSE release_all(w1)

\* ------------------------------------------------------- background job
\* process_executor.py: the job process, from __main__ to its exit.
\* The most lines the wrapped command writes to one stream.
MaxLines == 2
\* The most signals delivered to the job process.
MaxSignals == 1
\* os.getpid() of the job process, the pid of the wrapped command, and the
\* errno of an OSError raised by Popen.
OwnPid == 100
ChildPid == 200
ENOENT == 2
ExitCodes == {0, 1}
\* What goes wrong in execute(): nothing, Popen raises OSError, Popen raises
\* another exception, open() raises in ProcessLogger.__init__, or
\* process_stderr.start() raises after process_stdout.start() has run.
SpawnOracles == {"ok", "oserror", "error", "logger_error", "start_error"}
\* What os.setsid() does in the forked child.
DetachOracles == {"ok", "error"}
Signals == {"SIGINT", "SIGTERM"}

\* A log file opened by ProcessLogger.__init__ with open(path, 'wb'): what is
\* on disk, what is still in the file object's buffer, whether it is open.
NewFile == [disk |-> <<>>, buf |-> <<>>, open |-> FALSE]

\* The original process at the start of __main__, for a command that will
\* write n_out lines to stdout, n_err lines to stderr and exit with code c;
\* spawn says what goes wrong in execute(), py3 and win are _IS_PY2 = False
\* and _IS_WIN = True, detach says what os.setsid() does.
NewJob(n_out, n_err, c, spawn, py3, win, detach) ==
  [pc |-> "main", now |-> 0, args |-> <<>>, status |-> <<>>,
   writes |-> 0, terminal_writes |-> 0, records |-> <<>>,
   out |-> NewFile, err |-> NewFile,
   pipe_out |-> <<>>, pipe_err |-> <<>>,
   n_out |-> n_out, n_err |-> n_err,
   todo_out |-> n_out, todo_err |-> n_err, code |-> c, spawn |-> spawn,
   py3 |-> py3, win |-> win, detach |-> detach, leader |-> FALSE,
   child |-> "none", exit_code |-> None,
   reader_out |-> "new", reader_err |-> "new",
   handlers |-> FALSE, signals |-> 0, parent |-> "none", informed |-> FALSE,
   exc |-> FALSE, exit |-> <<>>, parent_exit |-> <<>>]

\* The k-th line the wrapped command writes to a stream, as readline()
\* returns it: odd lines hold a character, even lines are blank.
Line(stream, k) == IF k % 2 = 1 THEN <<stream, "\n">> ELSE <<"\n">>

\* The text of a traceback, as _log_exception() returns it.
Traceback == <<"T", "\n">>

\* os.linesep, and the characters log() strips from the left of a message.
linesep(win) == IF win THEN <<"\r", "\n">> ELSE <<"\n">>
StripChars(win) == IF win THEN {"\r", "\n"} ELSE {"\n"}

RECURSIVE lstrip(_, _)
lstrip(msg, chars) ==
  IF msg # <<>> /\ Head(msg) \in chars THEN lstrip(Tail(msg), chars) ELSE msg

\* args.update({k: v}) on the dict execute() keeps.
ArgsUpdate_first(args, k, v) == IF Has(args, k) THEN args ELSE Put(args, k, v)
ArgsUpdate(args, k, v) == Put(args, k, v)

\* get_current_time(): the clock moves with every reading.
Tick(j) == [j EXCEPT !.now = @ + 1]

\* update_status(**kw): the keys start_time, end_time, exit_code and pid of
\* kw, written to D/status in place of what the file held.
update_status(j, kw) ==
  LET status == SelectSeq(kw, LAMBDA e :
                   e.key \in {"start_time", "end_time", "exit_code", "pid"})
  IN [j EXCEPT !.status = status, !.writes = @ + 1,
               !.records = Append(@, status),
               !.terminal_writes = IF Has(status, "exit_code")
                                   THEN @ + 1 ELSE @]

\* ProcessLogger.log(msg) for a bytes message: the timestamp, a comma, the
\* message without its leading newlines and a line separator go to the file
\* object, which buffers them.
ProcessLogger_log_nothing(f, ts, msg, win) == f
ProcessLogger_log(f, ts, msg, win) ==
  IF f.open /\ msg # <<>>
  THEN [f EXCEPT !.buf = Append(@,
          [ts |-> ts, text |-> lstrip(msg, StripChars(win)) \o linesep(win)])]
  ELSE f

\* ProcessLogger.log(info) for the text _log_exception() returns. Under
\* Python 3 the text is a str, msg.lstrip(b'\n') raises TypeError and only
\* the timestamp and the comma were written.
log_info_raises(f, py3) == f.open /\ py3
ProcessLogger_log_info(f, ts, py3, win) ==
  IF ~f.open THEN f
  ELSE IF py3 THEN [f EXCEPT !.buf = Append(@, [ts |-> ts, text |-> <<>>])]
  ELSE ProcessLogger_log(f, ts, Traceback, win)

\* The file object writes its buffer to the file (the buffer is full, or
\* the file is being closed).
FileFlush(f) == [f EXCEPT !.disk = @ \o f.buf, !.buf = <<>>]

\* ProcessLogger.release(): closes the file, which flushes it.
ProcessLogger_release(f) ==
  IF f.open THEN [FileFlush(f) EXCEPT !.open = FALSE] ELSE f

\* ------------------------------------------ requests sharing one session
\* Server ids of the managers of one session.
Sids == {"1", "2"}

\* A manager after connection() and a successful connect() of the
\* Connection of its maintenance database, with its tunnel up when the
\* identity asks for one: its as_dict() is a snapshot.
ConnectedManager(server) ==
  LET m == init(server, <<>>, TRUE).m
      tunnel == m.use_ssh_tunnel = 1
      c == NewConnection(DbKey(m.db), m.db, TRUE, 0, FALSE, FALSE)
  IN [m EXCEPT
        !.connections =
           <<[key |-> DbKey(m.db),
              val |-> [c EXCEPT !.conn = TRUE, !.wasConnected = TRUE]]>>,
        !.ver = SrvVer, !.sversion = SrvSversion, !.server_type = SrvType,
        !.tunnel_created = tunnel,
        !.tunnel_object = IF tunnel THEN "active" ELSE None,
        !.local_bind_port = IF tunnel THEN "port" ELSE None]

\* The managers a request can hold: new ones, whose as_dict() is None, and
\* connected ones.
SessionManagers ==
  {init(s, <<>>, TRUE).m : s \in Servers}
    \cup {ConnectedManager(s) : s \in Servers}

\* session['__pgsql_server_managers'] before the requests: not in the
\* session (the empty sequence), an empty dict, or a dict with the entry of
\* one manager.
InitialStores ==
  { <<>>, << <<>> >> }
    \cup { << Put(<<>>, sid, as_dict(ConnectedManager(s))[1]) >> :
             sid \in Sids, s \in Servers }

\* A request about to call update_session() on the manager m of server sid.
\* managers is its local variable, ref says that the local variable is the
\* very dict the session holds, seen is what the session held when the
\* request read it.
NewRequest(sid, m) ==
  [pc |-> "start", sid |-> sid, mgr |-> m, managers |-> <<>>, ref |-> FALSE,
   seen |-> <<>>]

\* No request is running update_session().
NoRequests == [store |-> <<>>, by_ref |-> FALSE, before |-> <<>>, req |-> <<>>]

\* The dict that the local variable managers of request r names.
Managers(r) ==
  IF web.req[r].ref THEN web.store[1] ELSE web.req[r].managers

\* Lines 434-435: managers = session['__pgsql_server_managers'] when the key
\* is in the session, a new dict() otherwise.
ReadManagers(r) ==
  /\ web.req[r].pc = "start"
  /\ web' = [web EXCEPT
       !.req[r].pc = "read",
       !.req[r].seen = web.store,
       !.req[r].ref = web.by_ref /\ web.store # <<>>,
       !.req[r].managers = IF web.store # <<>> /\ ~web.by_ref
                           THEN web.store[1] ELSE <<>>]
  /\ UNCHANGED <<mgr, session, ret, job>>

\* Lines 436-442: updated_mgr = self.as_dict(); the sid's entry is popped
\* from managers when it is None and set to it otherwise. When managers is
\* the dict the session holds, that dict is changed.
SetEntry(r) ==
  /\ web.req[r].pc = "read"
  /\ LET q == web.req[r]
         updated_mgr == as_dict(q.mgr)
         d == IF updated_mgr = <<>> THEN Remove(Managers(r), q.sid)
              ELSE Put(Managers(r), q.sid, updated_mgr[1])
     IN web' = IF q.ref
               THEN [web EXCEPT !.req[r].pc = "modified", !.store = <<d>>]
               ELSE [web EXCEPT !.req[r].pc = "modified",
                                !.req[r].managers = d]
  /\ UNCHANGED <<mgr, session, ret, job>>

\* Line 443: session['__pgsql_server_managers'] = managers
WriteManagers(r) ==
  /\ web.req[r].pc = "modified"
  /\ web' = [web EXCEPT !.req[r].pc = "written", !.store = <<Managers(r)>>]
  /\ UNCHANGED <<mgr, session, ret, job>>

\* ---------------------------------------------------------------- actions
Cur(ck) == Frame(mgr, session, ck)

\* The record of a call: its name and argument kind, the exception it raised,
\* what it returned, its events in program order and the server row it was
\* given.
Outcome(op, arg, w, srv) ==
  [op |-> op, arg |-> arg, exc |-> w.exc, rv |-> w.rv,
   trace |-> w.trace, server |-> srv]

\* Between two requests no call is in progress.
Idle == [op |-> "idle", arg |-> None, exc |-> "none", rv |-> None,
         trace |-> <<>>, server |-> <<>>]

Commit(op, arg, w, srv) ==
  /\ ret = Idle
  /\ Len(w.m.connections) <= MaxConns
  /\ mgr' = w.m
  /\ session' = w.session
  /\ ret' = Outcome(op, arg, w, srv)
  /\ UNCHANGED <<job, web>>

\* auto_reconnect, use_binary_placeholder, array_to_string
Flags == {<<TRUE, TRUE, FALSE>>, <<FALSE, FALSE, TRUE>>}
OrNone(S) == {None} \cup S
\* One oracle per Connection that the loop will try to reconnect. The loop
\* ends at the first connect() that raises, and at the first reconnect when
\* the tunnel cannot be created, so the oracles behind that point are not
\* consulted and are fixed.
Oracles(flags, ot) ==
  {oc \in [1..Len(flags) -> ConnectOracles] :
     \A i \in 1..Len(flags) :
       \/ oc[i] = "ok"
       \/ /\ flags[i] /\ ot = "ok"
          /\ \A j \in 1..(i - 1) : oc[j] # "error"}
Reconnects(d) ==
  [i \in 1..Len(d) |-> d[i].val.wasConnected /\ d[i].val.auto_reconnect]
TunnelInputs == {"ok", "decrypt_failed", "start_failed"}
\* The tunnel oracle is consulted only when a tunnel has to be created.
TunnelChoices(m) ==
  IF m.use_ssh_tunnel = 1 /\ ~m.tunnel_created THEN TunnelInputs ELSE {"ok"}
\* process_masterpass_disabled() changes something only when the snapshot
\* holds a secret.
MasterpassChoices(data) ==
  IF data.password # None \/ data.tunnel_password # None
  THEN BOOLEAN ELSE {FALSE}

Init ==
  \E s \in Servers :
    LET w == init(s, <<>>, TRUE)
    IN /\ mgr = w.m
       /\ session = w.session
       /\ ret = Idle
       /\ job = NewJob(0, 0, 0, "ok", TRUE, FALSE, "ok")
       /\ web = NoRequests

Update ==
  \E s \in Servers : Commit("update", None, update(Cur(TRUE), s), <<s>>)

\* connect() is reached inside connection() only on the path that queries
\* the maintenance database; elsewhere the oracles are not consulted.
\* Whether connection(database, did) calls connect() on the Connection of the
\* maintenance database (lines 190-195).
ConnectsMaintenance(m, database, did) ==
  /\ database = None /\ did # None /\ ~Has(m.db_info, did)
  /\ Has(m.connections, DbKey(m.db))
  /\ ~connected(Get(m.connections, DbKey(m.db)))

\* Without the decryption key the call raises before it looks at conn_id and
\* the flags, so one value of each is enough there.
Connection ==
  \E database \in OrNone(Databases), did \in OrNone(Dids), ck \in BOOLEAN :
    \E conn_id \in (IF ck THEN OrNone(ConnIds) ELSE {None}),
       f \in (IF ck THEN Flags ELSE {<<TRUE, TRUE, FALSE>>}),
       o \in (IF ConnectsMaintenance(mgr, database, did)
              THEN ConnectOracles ELSE {"ok"}),
       ot \in (IF ConnectsMaintenance(mgr, database, did)
               THEN TunnelChoices(mgr) ELSE {"ok"}) :
      Commit("connection", None,
             connection(Cur(ck), database, conn_id, f[1], did, None,
                        f[2], f[3], o, ot), <<>>)

Release ==
  \E database \in OrNone(Databases), conn_id \in OrNone(ConnIds),
     did \in OrNone(Dids) :
    Commit("release",
           IF database = None /\ conn_id = None /\ did = None
           THEN "all" ELSE "key",
           release(Cur(TRUE), database, conn_id, did), <<>>)

\* A request reads the server's version.
Version ==
  Commit("version", None, versions(Cur(TRUE)), <<>>)

\* A request connects a registered Connection.
Connect ==
  \E i \in 1..Len(mgr.connections), o \in ConnectOracles, ck \in BOOLEAN,
     ot \in TunnelChoices(mgr) :
    Commit("connect", mgr.connections[i].key,
           conn_connect(Cur(ck), mgr.connections[i].key, None, o, ot), <<>>)

\* The server or the network drops a connected session.
ConnLost ==
  \E i \in 1..Len(mgr.connections) :
    /\ ret = Idle
    /\ mgr.connections[i].val.conn
    /\ mgr' = [mgr EXCEPT !.connections[i].val.conn = FALSE]
    /\ UNCHANGED <<session, ret, job, web>>

\* The SSH session behind the forwarder drops silently.
TunnelDrop ==
  /\ ret = Idle
  /\ mgr.tunnel_object = "active"
  /\ mgr' = [mgr EXCEPT !.tunnel_object = "dropped"]
  /\ UNCHANGED <<session, ret, job, web>>

\* After a restart of the application: a new ServerManager for the server,
\* then _restore(data) with the snapshot the session held.
RestoreFresh ==
  /\ session # <<>>
  /\ \E mp \in MasterpassChoices(session[1]), ck \in BOOLEAN :
       LET srv == [use_ssh_tunnel |-> mgr.use_ssh_tunnel,
                   maintenance_db |-> mgr.db, password |-> mgr.password,
                   tunnel_password |-> mgr.tunnel_password]
           w0 == init(srv, session, ck)
       IN \E ot \in TunnelChoices(w0.m) :
          \E oc \in Oracles(Reconnects(session[1].connections), ot) :
            Commit("restore", IF mp THEN "masterpass_disabled" ELSE None,
                   restore(w0, session[1], mp, oc, ot), <<srv>>)

RestoreConnections ==
  /\ Len(mgr.connections) > 0
  /\ \E ck \in BOOLEAN, ot \in TunnelChoices(mgr) :
     \E oc \in Oracles(Reconnects(mgr.connections), ot) :
       Commit("restore_connections", None,
              restore_connections(Cur(ck), oc, ot), <<>>)

\* The request that made the call ends, writing the manager's snapshot back
\* to the session.
RequestEnds ==
  /\ ret # Idle
  /\ ret' = Idle
  /\ session' = as_dict(mgr)
  /\ UNCHANGED <<mgr, job, web>>

Next ==
  \/ Update \/ Connection \/ Release
  \/ Connect \/ ConnLost \/ TunnelDrop \/ RequestEnds \/ Version
  \/ RestoreFresh \/ RestoreConnections

Spec == Init /\ [][Next]_vars

\* Two requests of one session, each running update_session() once; whether
\* a request gets the session's own dict or a copy of it is not decided by
\* the manager, so both are possible.
SessionInit ==
  /\ mgr = init(CHOOSE s \in Servers : s.use_ssh_tunnel = 0, <<>>, TRUE).m
  /\ session = <<>>
  /\ ret = Idle
  /\ job = NewJob(0, 0, 0, "ok", TRUE, FALSE, "ok")
  /\ \E by_ref \in BOOLEAN, store \in InitialStores :
       \E s1 \in Sids, s2 \in Sids, m1 \in SessionManagers,
          m2 \in SessionManagers :
         web = [store |-> store, by_ref |-> by_ref, before |-> store,
                req |-> <<NewRequest(s1, m1), NewRequest(s2, m2)>>]

SessionNext ==
  \E r \in 1..2 : ReadManagers(r) \/ SetEntry(r) \/ WriteManagers(r)

SessionSpec == SessionInit /\ [][SessionNext]_vars


\* ------------------------------------------------- background job: steps
JobStep(j) == job' = j /\ UNCHANGED <<mgr, session, ret, web>>

\* The job process has ended: it exited, or a signal terminated it.
Ended == {"exited", "killed"}
Alive(j) == j.pc \notin Ended

RECURSIVE Concat(_)
Concat(lines) ==
  IF lines = <<>> THEN <<>> ELSE Head(lines) \o Concat(Tail(lines))

\* __main__: signal.signal(SIGINT, signal_handler) and the same for SIGTERM.
InstallHandlers ==
  /\ job.pc = "main"
  /\ JobStep([job EXCEPT !.handlers = TRUE, !.pc = "detach"])

\* __main__: on Windows Popen starts a new interpreter on this script with
\* PGA_BGP_FOREGROUND=1, which becomes the job process, and the parent
\* sleeps; on POSIX os.fork(), the child becomes the job process and the
\* parent reads the pipe.
Detach ==
  /\ job.pc = "detach"
  /\ JobStep(IF job.win
             THEN [job EXCEPT !.handlers = FALSE, !.pc = "fg_main",
                              !.parent = "sleeping"]
             ELSE [job EXCEPT !.pc = "forked", !.parent = "reading"])

\* The detached Windows process runs __main__ itself and installs the
\* handlers, then calls execute(argv).
InstallHandlersFg ==
  /\ job.pc = "fg_main"
  /\ JobStep([job EXCEPT !.handlers = TRUE, !.pc = "execute"])

\* The forked child: os.close(r), os.setsid(), os.umask(0), w.write('1'),
\* w.close(), then execute(argv); an exception of os.setsid() goes to the
\* except clause of __main__.
Inform ==
  /\ job.pc = "forked"
  /\ JobStep(IF job.detach = "error"
             THEN [job EXCEPT !.pc = "detach_failed"]
             ELSE [job EXCEPT !.leader = TRUE, !.informed = TRUE,
                              !.pc = "execute"])

\* The except clause of __main__ in the forked child, before execute() was
\* called: _log_exception() and sys.exit(1), which closes the pipe.
DetachFailed ==
  /\ job.pc = "detach_failed"
  /\ JobStep([job EXCEPT !.pc = "exited", !.exit = <<1>>])

\* The parent: r.read() returns once the write end is closed (or the sleep
\* is over, on Windows), then sys.exit(0).
ParentExit ==
  /\ \/ job.parent = "sleeping"
     \/ job.parent = "reading" /\ (job.informed \/ ~Alive(job))
  /\ JobStep([job EXCEPT !.parent = "exited", !.parent_exit = <<0>>])

\* A signal is delivered to the job process: signal_handler does nothing;
\* without it the default action terminates the process.
Signal ==
  /\ Alive(job) /\ job.signals < MaxSignals
  /\ \E sig \in Signals :
       JobStep(IF job.handlers
               THEN [job EXCEPT !.signals = @ + 1]
               ELSE [job EXCEPT !.signals = @ + 1, !.pc = "killed"])

\* execute(): the two ProcessLoggers open D/out and D/err, before the try
\* block; an exception of open() leaves execute().
Execute ==
  /\ job.pc = "execute"
  /\ JobStep(IF job.spawn = "logger_error"
             THEN [job EXCEPT !.pc = "escaped"]
             ELSE [job EXCEPT !.out.open = TRUE, !.err.open = TRUE,
                              !.pc = "status1"])

\* The first status record: start time and the job process's own pid.
Status1 ==
  /\ job.pc = "status1"
  /\ LET j == Tick(job)
         args == ArgsUpdate(ArgsUpdate(ArgsUpdate(ArgsUpdate(job.args,
                   "start_time", j.now), "stdout", "log"),
                   "stderr", "log"), "pid", OwnPid)
     IN JobStep([update_status(j, args) EXCEPT !.args = args,
                                               !.pc = "spawn"])

\* Popen(command, stdout=PIPE, stderr=PIPE)
Spawn ==
  /\ job.pc = "spawn"
  /\ JobStep(IF job.spawn \in {"ok", "start_error"}
             THEN [job EXCEPT !.child = "running", !.pc = "status2"]
             ELSE IF job.spawn = "oserror"
               THEN [job EXCEPT !.pc = "oserror"]
             ELSE [job EXCEPT !.pc = "exception"])

\* The second status record: a new start time and the command's pid.
Status2 ==
  /\ job.pc = "status2"
  /\ LET j == Tick(job)
         args == ArgsUpdate(ArgsUpdate(job.args, "start_time", j.now),
                            "pid", ChildPid)
     IN JobStep([update_status(j, args) EXCEPT !.args = args,
                                               !.pc = "start"])

\* attach_process_stream() and start() of both reader threads; an exception
\* of the second start() goes to the except Exception clause.
StartReaders ==
  /\ job.pc = "start"
  /\ JobStep(IF job.spawn = "start_error"
             THEN [job EXCEPT !.reader_out = "running", !.pc = "exception"]
             ELSE [job EXCEPT !.reader_out = "running",
                              !.reader_err = "running", !.pc = "join"])

\* process_stdout.join(); process_stderr.join()
Join_unjoined ==
  /\ job.pc = "join"
  /\ JobStep([job EXCEPT !.pc = "wait"])
Join ==
  /\ job.pc = "join"
  /\ job.reader_out = "done" /\ job.reader_err = "done"
  /\ JobStep([job EXCEPT !.pc = "wait"])

\* exitCode = process.wait(), then exit_code and end_time go to args.
Wait_zero ==
  /\ job.pc = "wait"
  /\ job.child = "exited"
  /\ LET j == Tick(job)
     IN JobStep([j EXCEPT !.args = ArgsUpdate(ArgsUpdate(@,
                              "exit_code", 0), "end_time", j.now),
                         !.pc = "drain"])
Wait ==
  /\ job.pc = "wait"
  /\ job.child = "exited"
  /\ LET j == Tick(job)
     IN JobStep([j EXCEPT !.args = ArgsUpdate(ArgsUpdate(@,
                              "exit_code", job.exit_code), "end_time", j.now),
                         !.pc = "drain"])

\* process.communicate(): what the pipes still hold is logged by the main
\* thread, one message per stream.
Drain ==
  /\ job.pc = "drain"
  /\ LET j == Tick(job)
     IN JobStep([j EXCEPT
          !.out = ProcessLogger_log(@, j.now, Concat(job.pipe_out), job.win),
          !.err = ProcessLogger_log(@, j.now, Concat(job.pipe_err), job.win),
          !.pipe_out = <<>>, !.pipe_err = <<>>, !.pc = "finally"])

\* An except clause of execute(): exit_code first, then the traceback to
\* D/err, then end_time and exit_code last. An exception of log() leaves the
\* clause for the finally block.
Handle(first, last) ==
  LET j == Tick(job)
      a1 == ArgsUpdate(job.args, "exit_code", first)
      err == ProcessLogger_log_info(job.err, j.now, job.py3, job.win)
  IN IF log_info_raises(job.err, job.py3)
     THEN [j EXCEPT !.err = err, !.args = a1, !.exc = TRUE, !.pc = "finally"]
     ELSE LET j2 == Tick(j)
              a2 == ArgsUpdate(a1, "end_time", j2.now)
              a3 == ArgsUpdate(a2, "exit_code", last)
          IN [j2 EXCEPT !.err = err, !.args = a3, !.pc = "finally"]

\* except OSError as e: 500, then e.errno.
OSErrorHandler ==
  /\ job.pc = "oserror"
  /\ JobStep(Handle(500, ENOENT))

\* except Exception: 501, then -1.
ExceptionHandler ==
  /\ job.pc = "exception"
  /\ JobStep(Handle(501, -1))

\* finally: update_status(**args)
FinalStatus ==
  /\ job.pc = "finally"
  /\ JobStep([update_status(job, job.args) EXCEPT !.pc = "release_err"])

\* finally: process_stderr.release(), then process_stdout.release(); a
\* pending exception then leaves execute().
ReleaseErr ==
  /\ job.pc = "release_err"
  /\ JobStep([job EXCEPT !.err = ProcessLogger_release(@),
                         !.pc = "release_out"])
ReleaseOut ==
  /\ job.pc = "release_out"
  /\ JobStep([job EXCEPT !.out = ProcessLogger_release(@),
                         !.pc = IF job.exc THEN "escaped" ELSE "done"])

\* The interpreter joins the reader threads before the process exits.
ThreadsEnded(j) == j.reader_out # "running" /\ j.reader_err # "running"

\* execute() returned: __main__ ends and the job process exits with 0.
ExecuteReturns ==
  /\ job.pc = "done" /\ ThreadsEnded(job)
  /\ JobStep([job EXCEPT !.pc = "exited", !.exit = <<0>>])

\* An exception left execute(): on POSIX __main__ logs it and calls
\* sys.exit(1); on Windows __main__ logs it and ends.
Escape ==
  /\ job.pc = "escaped" /\ ThreadsEnded(job)
  /\ JobStep([job EXCEPT !.pc = "exited",
                         !.exit = IF job.win THEN <<0>> ELSE <<1>>])

\* The wrapped command writes its next line to stdout or to stderr.
ChildWriteOut ==
  /\ job.child = "running" /\ job.todo_out > 0
  /\ JobStep([job EXCEPT
       !.pipe_out = Append(@, Line("o", job.n_out - job.todo_out + 1)),
       !.todo_out = @ - 1])
ChildWriteErr ==
  /\ job.child = "running" /\ job.todo_err > 0
  /\ JobStep([job EXCEPT
       !.pipe_err = Append(@, Line("e", job.n_err - job.todo_err + 1)),
       !.todo_err = @ - 1])

\* The wrapped command exits, which closes its ends of the pipes.
ChildExit ==
  /\ job.child = "running" /\ job.todo_out = 0 /\ job.todo_err = 0
  /\ JobStep([job EXCEPT !.child = "exited", !.exit_code = job.code])

\* ProcessLogger.run(): readline() returned a line, which is logged.
ReaderOutLine ==
  /\ Alive(job) /\ job.reader_out = "running" /\ job.pipe_out # <<>>
  /\ LET j == Tick(job)
     IN JobStep([j EXCEPT
          !.out = ProcessLogger_log(@, j.now, Head(job.pipe_out), job.win),
          !.pipe_out = Tail(@)])
ReaderErrLine ==
  /\ Alive(job) /\ job.reader_err = "running" /\ job.pipe_err # <<>>
  /\ LET j == Tick(job)
     IN JobStep([j EXCEPT
          !.err = ProcessLogger_log(@, j.now, Head(job.pipe_err), job.win),
          !.pipe_err = Tail(@)])

\* ProcessLogger.run(): readline() returned nothing and poll() is not None.
ReaderOutEnd_early ==
  /\ Alive(job) /\ job.reader_out = "running" /\ job.pipe_out = <<>>
  /\ JobStep([job EXCEPT !.reader_out = "done"])
ReaderOutEnd ==
  /\ Alive(job) /\ job.reader_out = "running" /\ job.pipe_out = <<>>
  /\ job.child = "exited"
  /\ JobStep([job EXCEPT !.reader_out = "done"])
ReaderErrEnd ==
  /\ Alive(job) /\ job.reader_err = "running" /\ job.pipe_err = <<>>
  /\ job.child = "exited"
  /\ JobStep([job EXCEPT !.reader_err = "done"])

\* The buffer of an open log file fills up and is written to the file.
FlushOut ==
  /\ Alive(job) /\ job.out.open /\ job.out.buf # <<>>
  /\ JobStep([job EXCEPT !.out = FileFlush(@)])
FlushErr ==
  /\ Alive(job) /\ job.err.open /\ job.err.buf # <<>>
  /\ JobStep([job EXCEPT !.err = FileFlush(@)])

\* The wrapped command runs only when Popen is reached and succeeds; what a
\* command that never runs would have written is left out.
CommandRuns(spawn, detach) ==
  spawn \in {"ok", "start_error"} /\ detach = "ok"
CommandLines(spawn, detach) ==
  IF CommandRuns(spawn, detach) THEN 0..MaxLines ELSE {0}

JobInit ==
  /\ mgr = init(CHOOSE s \in Servers : s.use_ssh_tunnel = 0, <<>>, TRUE).m
  /\ session = <<>>
  /\ ret = Idle
  /\ web = NoRequests
  /\ \E spawn \in SpawnOracles, py3 \in BOOLEAN, win \in BOOLEAN :
       \E detach \in IF win THEN {"ok"} ELSE DetachOracles :
         \E n_out \in CommandLines(spawn, detach),
            n_err \in CommandLines(spawn, detach),
            c \in IF CommandRuns(spawn, detach) THEN ExitCodes ELSE {0} :
           job = NewJob(n_out, n_err, c, spawn, py3, win, detach)

\* The main thread of the job process, its two reader threads, the wrapped
\* command, the parent process and the file objects.
MainThread ==
  \/ InstallHandlers \/ Detach \/ InstallHandlersFg \/ Inform
  \/ DetachFailed
  \/ Execute \/ Status1 \/ Spawn \/ Status2 \/ StartReaders \/ Join
  \/ Wait \/ Drain \/ OSErrorHandler \/ ExceptionHandler \/ FinalStatus
  \/ ReleaseErr \/ ReleaseOut \/ ExecuteReturns \/ Escape
ReaderOut == ReaderOutLine \/ ReaderOutEnd
ReaderErr == ReaderErrLine \/ ReaderErrEnd
Command == ChildWriteOut \/ ChildWriteErr \/ ChildExit
Buffers == FlushOut \/ FlushErr

JobNext ==
  \/ MainThread \/ ReaderOut \/ ReaderErr \/ Command \/ Buffers
  \/ ParentExit \/ Signal

JobSpec == JobInit /\ [][JobNext]_vars

\* The job process and the wrapped command alone: no signal arrives and the
\* parent is left aside. The scheduler runs every thread and process that
\* can take a step.
ExecuteNext == MainThread \/ ReaderOut \/ ReaderErr \/ Command \/ Buffers
JobFairSpec ==
  /\ JobInit /\ [][ExecuteNext]_vars
  /\ WF_vars(MainThread) /\ WF_vars(ReaderOut) /\ WF_vars(ReaderErr)
  /\ WF_vars(Command)

\* ------------------------------------------------------------ properties
\* The keys (or exceptions) of the events named ev in a trace.
EvKeys(tr, ev) == {tr[i].key : i \in {j \in 1..Len(tr) : tr[j].ev = ev}}
EvAt(tr, ev) == {j \in 1..Len(tr) : tr[j].ev = ev}
RestoreOps == {"restore", "restore_connections"}
KeySeq(d) == [i \in 1..Len(d) |-> d[i].key]

\* C1: the registry holds at most one Connection per key; connection() on a
\* registered key returns the registered Connection without constructing one;
\* and outside the restore calls a registered key stays registered, with the
\* same Connection, until release() or update() tears it down.
C1_SameConnectionPerKey ==
  /\ [](\A i, j \in 1..Len(mgr.connections) :
          mgr.connections[i].key = mgr.connections[j].key => i = j)
  /\ [][ /\ ((ret'.op = "connection" /\ ret'.exc = "none"
               /\ Has(mgr.connections, ret'.rv))
              => (/\ ret'.rv \notin EvKeys(ret'.trace, "created")
                  /\ Idx(mgr'.connections, ret'.rv)
                       = Idx(mgr.connections, ret'.rv)))
          /\ (ret'.op \notin RestoreOps
              => (\A k \in KeysOf(mgr.connections)
                             \ EvKeys(ret'.trace, "teardown") :
                    /\ Has(mgr'.connections, k)
                    /\ k \notin EvKeys(ret'.trace, "created")))
          /\ (EvKeys(ret'.trace, "teardown") # {}
              => ret'.op \in {"release", "update"}) ]_vars

\* connection() returned a Connection that was registered before the call.
C1_Witness ==
  /\ ret.op = "connection" /\ ret.exc = "none"
  /\ ret.rv \notin EvKeys(ret.trace, "created")
  /\ Len(mgr.connections) = 2

\* C2: after release() with no arguments the registry is empty, ver,
\* sversion and server_type are None, and a forwarder that was active has
\* been stopped.
C2_ReleaseAllComplete ==
  [][ (ret'.op = "release" /\ ret'.arg = "all")
      => /\ mgr'.connections = <<>>
         /\ mgr'.ver = None /\ mgr'.sversion = <<>> /\ mgr'.server_type = None
         /\ mgr'.tunnel_object # "active"
         /\ (mgr.tunnel_object = "active"
             => /\ EvKeys(ret'.trace, "tunnel_stop") # {}
                /\ mgr'.tunnel_object = None /\ ~mgr'.tunnel_created) ]_vars

\* release() with no arguments ran on a populated registry with a version
\* known and an active tunnel.
C2_Witness ==
  /\ ret.op = "release" /\ ret.arg = "all"
  /\ EvKeys(ret.trace, "tunnel_stop") # {}
  /\ Cardinality(EvKeys(ret.trace, "teardown")) = 2

\* C3: whenever a release() call leaves the registry empty, the tunnel is
\* torn down (tunnel_created false, no forwarder handle) and db_info is empty.
C3_EmptyRegistryTearsDownAll ==
  (ret.op = "release" /\ ret.rv = "True" /\ mgr.connections = <<>>)
  => /\ ~mgr.tunnel_created /\ mgr.tunnel_object = None
     /\ mgr.db_info = <<>>

\* C4: release() returns True if and only if it removed at least one
\* Connection from the registry.
C4_ReleaseReturnsWhetherReleased ==
  ret.op = "release"
  => (ret.rv = "True" <=> EvKeys(ret.trace, "teardown") # {})

AllReconnected(r) ==
  /\ r.exc = "none"
  /\ EvKeys(r.trace, "raise") = {}
  /\ EvKeys(r.trace, "create_failed") = {}
  /\ EvKeys(r.trace, "connect") \subseteq EvKeys(r.trace, "connected")

\* C6: _restore(as_dict(M)) on a new manager, every reconnect succeeding,
\* yields the keys of M, each with the wasConnected flag, the transport flags
\* and the auto_reconnect policy it has in M.
C6_SnapshotRoundTrip ==
  [][ (ret'.op = "restore" /\ session = as_dict(mgr) /\ AllReconnected(ret'))
      => /\ KeysOf(mgr'.connections) = KeysOf(mgr.connections)
         /\ \A k \in KeysOf(mgr.connections) :
              LET a == Get(mgr.connections, k)
                  b == Get(mgr'.connections, k)
              IN /\ b.wasConnected = a.wasConnected
                 /\ b.auto_reconnect = a.auto_reconnect
                 /\ b.use_binary_placeholder = a.use_binary_placeholder
                 /\ b.array_to_string = a.array_to_string ]_vars

\* The keys a restore call iterates over, in order: those of the snapshot
\* for _restore, those of the registry for _restore_connections.
RestoreKeys(op, m, s) ==
  IF op = "restore" THEN KeySeq(s[1].connections) ELSE KeySeq(m.connections)
\* The key of the last visit before event j.
VisitedAt(tr, j) ==
  tr[CHOOSE i \in EvAt(tr, "visit") :
       i < j /\ \A i2 \in EvAt(tr, "visit") : i2 < j => i2 <= i].key
PosOf(keys, k) == CHOOSE i \in 1..Len(keys) : keys[i] = k

\* C7: when a reconnect of _restore or _restore_connections fails with an
\* error other than CryptKeyMissing, the call raises that error, the failing
\* key is not registered afterwards, every key visited earlier still is, and
\* the later keys are not visited (nor, in _restore, registered).
C7_RestoreStopsAtFailure ==
  [][ (ret'.op \in RestoreOps)
      => \A j \in EvAt(ret'.trace, "raise") :
           ret'.trace[j].key # "CryptKeyMissing"
           => LET keys == RestoreKeys(ret'.op, mgr, session)
                  k == VisitedAt(ret'.trace, j)
                  p == PosOf(keys, k)
              IN /\ ret'.exc = ret'.trace[j].key
                 /\ ~Has(mgr'.connections, k)
                 /\ \A i \in 1..(p - 1) : Has(mgr'.connections, keys[i])
                 /\ \A i \in (p + 1)..Len(keys) :
                      /\ keys[i] \notin EvKeys(ret'.trace, "visit")
                      /\ ret'.op = "restore"
                         => ~Has(mgr'.connections, keys[i]) ]_vars

\* _restore raised at the second Connection of the snapshot and kept the
\* first.
C7_Witness ==
  /\ ret.op = "restore" /\ ret.exc = "OperationalError"
  /\ Len(mgr.connections) = 1
  /\ Cardinality(EvKeys(ret.trace, "visit")) = 2

C9_TunnelOnlyForTunnelIdentity ==
  mgr.tunnel_created => mgr.use_ssh_tunnel = 1

\* C10: with an identity that uses a tunnel, every connect() of _restore and
\* _restore_connections is preceded by check_ssh_tunnel_alive() for that
\* Connection, so the forwarder is active when the reconnect is attempted.
C10_AliveCheckedBeforeConnect ==
  (ret.op \in RestoreOps /\ mgr.use_ssh_tunnel = 1)
  => \A j \in EvAt(ret.trace, "connect") :
       /\ \E i \in 1..(j - 1) :
            ret.trace[i].ev = "check" /\ ret.trace[i].key = ret.trace[j].key
       /\ ret.trace[j].active

\* C11: check_ssh_tunnel_alive() raises SSHTunnelConnectionLost exactly when
\* the forwarder handle is absent or not active, and after it raised
\* tunnel_created is false, the handle is None and local_bind_port is None;
\* local_bind_port is non-null only while tunnel_created is true.
C11_CheckAliveTearsDown ==
  /\ \A j \in EvAt(ret.trace, "check") :
       LET raised == /\ j < Len(ret.trace)
                     /\ ret.trace[j + 1].ev = "raise"
                     /\ ret.trace[j + 1].key = "SSHTunnelConnectionLost"
       IN /\ raised <=> ~ret.trace[j].active
          /\ raised => /\ ~mgr.tunnel_created
                       /\ mgr.tunnel_object = None
                       /\ mgr.local_bind_port = None
  /\ (mgr.local_bind_port # None => mgr.tunnel_created)

\* C12: a forwarder that was started is stopped before the manager's handle
\* to it is replaced (by create_ssh_tunnel) or dropped.
C12_StartedForwarderStoppedFirst ==
  [][ /\ \A j \in EvAt(ret'.trace, "forwarder") :
           ret'.trace[j].key \notin Started
      /\ (ret'.op # "restore" /\ mgr.tunnel_object \in Started
             /\ mgr'.tunnel_object = None)
          => EvKeys(ret'.trace, "tunnel_stop") # {} ]_vars

\* A secret the manager stores: the password, or with a tunnel identity the
\* tunnel password.
StoredSecret(m) ==
  m.password # None \/ (m.use_ssh_tunnel = 1 /\ m.tunnel_password # None)

\* C13: connection(database, conn_id) raises CryptKeyMissing exactly when the
\* decryption key is unavailable, the manager stores a secret and the key the
\* call resolves to is not registered yet.
C13_CryptKeyMissingOnlyForSecrets ==
  \A database \in Databases, conn_id \in OrNone(ConnIds), ck \in BOOLEAN :
    LET w == connection(Frame(mgr, session, ck), database, conn_id, TRUE,
                        None, None, FALSE, FALSE, "ok", "ok")
        my_id == IF conn_id # None THEN ConnKey(conn_id) ELSE DbKey(database)
    IN w.exc = "CryptKeyMissing"
       <=> (~ck /\ StoredSecret(mgr) /\ ~Has(mgr.connections, my_id))

\* connection(did=did) resolves no database: did is not cached, and the
\* Connection of the maintenance database is missing or stays unconnected.
Unresolvable(m, did, o) ==
  /\ ~Has(m.db_info, did)
  /\ \/ ~Has(m.connections, DbKey(m.db))
     \/ /\ ~connected(Get(m.connections, DbKey(m.db)))
        /\ o = "failed"

VersionResult(f) == ret.trace[CHOOSE j \in EvAt(ret.trace, f) : TRUE].key

\* C15: for sversion = major*10000 + minor*100 + patch with minor and patch
\* below 100, MajorVersion() returns major, MinorVersion() returns minor and
\* PatchVersion() returns patch.
C15_VersionParts ==
  (ret.op = "version" /\ mgr.sversion # <<>>)
  => LET sv == mgr.sversion[1]
     IN /\ VersionResult("MajorVersion") = <<sv \div 10000>>
        /\ VersionResult("MinorVersion") = <<(sv \div 100) % 100>>
        /\ VersionResult("PatchVersion") = <<sv % 100>>

\* C16: the three version calls raise when sversion is None and only then;
\* sversion is None on a new manager, after update() and after a release()
\* that empties the registry.
C16_VersionRaisesWhenUndetermined ==
  /\ ret.op = "version"
     => \A f \in {"MajorVersion", "MinorVersion", "PatchVersion"} :
          VersionResult(f) = <<>> <=> mgr.sversion = <<>>
  /\ \A s \in Servers :
       LET m == init(s, <<>>, TRUE).m
       IN /\ m.sversion = <<>>
          /\ MajorVersion(m) = <<>> /\ MinorVersion(m) = <<>>
          /\ PatchVersion(m) = <<>>
  /\ ret.op = "update" => mgr.sversion = <<>>
  /\ (ret.op = "release" /\ EvKeys(ret.trace, "teardown") # {}
        /\ mgr.connections = <<>>)
     => mgr.sversion = <<>>

\* The version was asked for after a release(), which also resets the
\* password.
C16_Witness ==
  /\ ret.op = "version" /\ mgr.sversion = <<>>
  /\ VersionResult("PatchVersion") = <<>>
  /\ mgr.use_ssh_tunnel = 0 /\ mgr.password = None

\* Whether create_ssh_tunnel(tunnel_pw) fails under oracle o for a reason
\* other than a missing decryption key.
CreateFails(o, tunnel_pw) ==
  \/ o \in {"unauthorized", "start_failed"}
  \/ o = "decrypt_failed" /\ tunnel_pw # None

\* C17: create_ssh_tunnel() returns True only with the forwarder started,
\* tunnel_created true and local_bind_port set; it raises nothing but
\* CryptKeyMissing, and every other failure returns False with
\* tunnel_created and local_bind_port as they were.
C17_CreateTunnelOutcome ==
  /\ \A o \in TunnelOracles, ck \in BOOLEAN :
       LET w == create_ssh_tunnel(Frame(mgr, session, ck),
                                  mgr.tunnel_password, None, o)
       IN /\ w.rv = "True"
             => /\ w.m.tunnel_object = "active" /\ w.m.tunnel_created
                /\ w.m.local_bind_port = "port"
                /\ ~CreateFails(o, mgr.tunnel_password)
          /\ w.exc # "none" => (w.exc = "CryptKeyMissing" /\ ~ck)
          /\ (CreateFails(o, mgr.tunnel_password) /\ w.exc = "none")
             => /\ w.rv = "False"
                /\ w.m.tunnel_created = mgr.tunnel_created
                /\ w.m.local_bind_port = mgr.local_bind_port
  /\ \A j \in EvAt(ret.trace, "create_ok") :
       ret.trace[j].created /\ ret.trace[j].active
  /\ \A j \in EvAt(ret.trace, "create_failed") :
       /\ ret.trace[j].created = ret.trace[j - 1].created
       /\ ~ret.trace[j].active

\* A call in which the forwarder could not be started.
C17_Witness ==
  /\ EvKeys(ret.trace, "create_failed") # {}
  /\ EvKeys(ret.trace, "forwarder") # {}
  /\ mgr.tunnel_object = "inactive" /\ ~mgr.tunnel_created

\* C18: after stop_ssh_tunnel() (the first thing release() with no arguments
\* does) tunnel_created is false, local_bind_port is None and there is no
\* forwarder handle, whatever the handle was before; with no handle the call
\* changes nothing.
C18_StopTunnelAlwaysClears ==
  /\ (ret.op = "release" /\ ret.arg = "all")
     => /\ ~mgr.tunnel_created
        /\ mgr.local_bind_port = None
        /\ mgr.tunnel_object = None
  /\ LET w == stop_ssh_tunnel(Frame(mgr, session, TRUE))
     IN /\ w.exc = "none"
        /\ mgr.tunnel_object = None => w.m = mgr

\* C19: when process_masterpass_disabled() says that secrets are not to be
\* stored, the snapshot as_dict() produces, which update_session() writes to
\* the session, holds neither the password nor the tunnel password.
C19_NoSecretsInSnapshotWhenDisabled ==
  (ret.op = "restore" /\ ret.arg = "masterpass_disabled")
  => LET d == update_session(Frame(mgr, session, TRUE)).session
     IN d # <<>> => (d[1].password = None /\ d[1].tunnel_password = None)

\* D/status holds a record with a non-null exit_code.
Terminal(j) == Has(j.status, "exit_code") /\ Get(j.status, "exit_code") \in Int

\* C20: once D/status holds a non-null exit_code, D/status is not written
\* again and what D/out and D/err hold on disk no longer changes: both log
\* files were flushed and closed before the terminal record was written.
C20_StatusTerminality ==
  [][ Terminal(job)
      => /\ job'.writes = job.writes
         /\ job'.out.disk = job.out.disk
         /\ job'.err.disk = job.err.disk
         /\ ~job.out.open /\ ~job.err.open ]_vars

\* The job ran execute() on its normal path: nothing was made to fail.
NormalPath(j) == j.spawn = "ok" /\ j.detach = "ok"

\* The entries a log file holds, on disk and in its buffer.
Entries(f) == f.disk \o f.buf

\* C21: on the normal path the terminal status record is written only after
\* both reader threads have terminated, the exit code of the command has
\* been collected and the last read of both streams has been logged.
C21_TerminalAfterJoinWaitDrain ==
  (Terminal(job) /\ NormalPath(job))
    => /\ job.reader_out = "done" /\ job.reader_err = "done"
       /\ job.child = "exited"
       /\ Get(job.args, "exit_code") = job.exit_code
       /\ job.pipe_out = <<>> /\ job.pipe_err = <<>>
       /\ Len(Entries(job.out)) = job.n_out
       /\ Len(Entries(job.err)) = job.n_err

\* A command that wrote to both streams has its terminal record on file.
C21_Witness ==
  Terminal(job) /\ NormalPath(job) /\ job.n_out > 0 /\ job.n_err > 0

\* C22: when Popen raises an OS error the terminal status record has
\* exit_code 500, and when another exception is raised in execute() it has
\* exit_code 501.
C22_ErrorExitCodes ==
  Terminal(job)
    => /\ (job.spawn = "oserror" => Get(job.status, "exit_code") = 500)
       /\ (job.spawn = "error" => Get(job.status, "exit_code") = 501)

\* C23: every run of the job process writes a terminal status record on
\* every exit path, a failure while creating the stream loggers included: a
\* job process that has exited has left a terminal record in D/status.
C23_ExitedLeavesTerminalStatus ==
  (job.pc = "exited" /\ job.detach = "ok") => Terminal(job)

\* C24: no exception leaves execute(): an OS error of Popen or any other
\* exception raised while the job runs is absorbed and execute() returns.
C24_NoExceptionEscapes ==
  job.spawn \in {"oserror", "error"} => job.pc # "escaped"

\* What a line or a log entry holds before its first line end.
RECURSIVE FirstLine(_)
FirstLine(text) ==
  IF text = <<>> \/ Head(text) \in {"\r", "\n"} THEN <<>>
  ELSE <<Head(text)>> \o FirstLine(Tail(text))

\* The lines a log file records, and the first n lines written to a stream.
Recorded(f) == [i \in 1..Len(Entries(f)) |-> FirstLine(Entries(f)[i].text)]
Written(stream, n) == [k \in 1..n |-> FirstLine(Line(stream, k))]
IsPrefix(a, b) == Len(a) <= Len(b) /\ a = SubSeq(b, 1, Len(a))
TimesOrdered(f) ==
  \A i, k \in 1..Len(Entries(f)) :
    i <= k => Entries(f)[i].ts <= Entries(f)[k].ts

\* C25: every line the command writes to stdout (stderr) is appended to
\* D/out (D/err) exactly once and in the order written, whatever the
\* interleaving of the readers, the command and the last read; the
\* timestamps within each file never decrease.
C25_LogsCompleteAndOrdered ==
  NormalPath(job)
    => /\ IsPrefix(Recorded(job.out), Written("o", job.n_out))
       /\ IsPrefix(Recorded(job.err), Written("e", job.n_err))
       /\ TimesOrdered(job.out) /\ TimesOrdered(job.err)
       /\ (job.pc \in {"done", "exited"}
             => /\ Recorded(job.out) = Written("o", job.n_out)
                /\ Recorded(job.err) = Written("e", job.n_err)
                /\ job.out.buf = <<>> /\ job.err.buf = <<>>)

\* Both files are closed after a command that wrote a text line and a blank
\* line to each stream.
C25_Witness ==
  /\ NormalPath(job) /\ job.pc = "done"
  /\ job.n_out >= 2 /\ job.n_err >= 2
  /\ Len(job.out.disk) = job.n_out /\ Len(job.err.disk) = job.n_err

\* C26: for a command that was spawned and ran to completion with exit code
\* c, the terminal status record has exit_code = c and start_time <=
\* end_time, and the job process itself exits with code 0.
C26_ExitCodeRecorded ==
  NormalPath(job)
    => /\ Terminal(job)
            => /\ Get(job.status, "exit_code") = job.code
               /\ Has(job.status, "start_time") /\ Has(job.status, "end_time")
               /\ Get(job.status, "start_time") <= Get(job.status, "end_time")
       /\ job.pc = "exited" => (Terminal(job) /\ job.exit = <<0>>)

\* The job process has exited after a command that failed with code 1.
C26_Witness ==
  NormalPath(job) /\ job.pc = "exited" /\ job.code = 1 /\ Terminal(job)

StatusKeys == {"start_time", "end_time", "exit_code", "pid"}
Keys(d) == {d[i].key : i \in 1..Len(d)}

\* C27: every record written to D/status holds only the keys start_time,
\* end_time, exit_code and pid and replaces the record before it; exit_code
\* is present exactly when end_time is, and only in the last record written.
C27_StatusRecordShape ==
  /\ \A i \in 1..Len(job.records) :
       LET rec == job.records[i]
       IN /\ Keys(rec) \subseteq StatusKeys
          /\ Has(rec, "exit_code") <=> Has(rec, "end_time")
          /\ Has(rec, "exit_code") => i = Len(job.records)
  /\ job.records # <<>> => job.status = job.records[Len(job.records)]

\* C28: the first status record holds the pid of the job process; once the
\* command has been spawned the record holds the command's pid and a
\* start_time not before the first one, and the terminal record keeps that
\* pid; when the spawn fails the terminal record keeps the job process's pid.
C28_PidInStatus ==
  /\ Len(job.records) >= 1 => Get(job.records[1], "pid") = OwnPid
  /\ (NormalPath(job) /\ Len(job.records) >= 2)
       => /\ Get(job.records[2], "pid") = ChildPid
          /\ Get(job.records[2], "start_time")
               >= Get(job.records[1], "start_time")
  /\ (NormalPath(job) /\ Terminal(job)) => Get(job.status, "pid") = ChildPid
  /\ (job.spawn \in {"oserror", "error"} /\ Terminal(job))
       => Get(job.status, "pid") = OwnPid

\* The third record, the terminal one, is on file after a successful spawn.
C28_Witness ==
  NormalPath(job) /\ Terminal(job) /\ Len(job.records) = 3

\* C29: a reader thread terminates only when its stream is at its end and
\* the command has exited, never while the command still runs, and it does
\* terminate once the command has exited and the stream is exhausted.
C29_ReaderTermination ==
  /\ [](/\ job.reader_out = "done"
             => (job.child = "exited" /\ job.pipe_out = <<>>)
        /\ job.reader_err = "done"
             => (job.child = "exited" /\ job.pipe_err = <<>>))
  /\ (job.reader_out = "running" /\ job.child = "exited")
       ~> (job.reader_out = "done")
  /\ (job.reader_err = "running" /\ job.child = "exited")
       ~> (job.reader_err = "done")

\* The stdout reader has ended after reading what the command wrote.
C29_Witness ==
  /\ job.reader_out = "done" /\ job.reader_err = "running"
  /\ job.n_out > 0 /\ Len(Entries(job.out)) = job.n_out

\* The job process is the detached one: the forked child on POSIX, the new
\* interpreter on Windows.
Detached(j) == j.pc \notin {"main", "detach"}

\* C30: the handlers for SIGINT and SIGTERM are installed before the job
\* process is forked or spawned, so from detachment to the terminal status
\* write the delivery of a signal neither terminates the job process nor
\* changes the status record.
C30_SignalsIgnoredOnceDetached ==
  [][ (Detached(job) /\ Alive(job) /\ ~Terminal(job)
         /\ job'.signals = job.signals + 1)
      => (job.handlers /\ job'.pc = job.pc /\ job'.status = job.status) ]_vars

\* C31: on POSIX the parent exits only after the forked child has become a
\* session leader, reset the umask and reported through the pipe, and it
\* does not exit with code 0 when the child failed to detach.
C31_ParentExitsAfterDetach ==
  (~job.win /\ job.parent = "exited")
    => /\ job.leader /\ job.informed
       /\ (job.detach = "error" => job.parent_exit # <<0>>)

\* C39: no log file is closed while the reader thread that writes to it
\* still runs, and the main thread writes to D/out and D/err only after the
\* reader of that file has terminated, on every path of execute().
C39_MainThreadWritesAfterReaders ==
  /\ job.reader_out = "running"
       => (job.out.open /\ job.pc # "drain")
  /\ job.reader_err = "running"
       => (job.err.open /\ job.pc \notin {"drain", "oserror", "exception"})

\* C32: when create_ssh_tunnel() or connect() raises CryptKeyMissing for a
\* Connection during _restore or _restore_connections, the call does not
\* raise it, the Connection stays registered with wasConnected and
\* auto_reconnect as they were before the attempt, and the loop goes on:
\* when nothing else was raised the call returns and has visited every key.
C32_CryptKeyMissingKeepsConnection ==
  [][ ret'.op \in RestoreOps
      => /\ ret'.exc # "CryptKeyMissing"
         /\ \A j \in EvAt(ret'.trace, "raise") :
              ret'.trace[j].key = "CryptKeyMissing"
              => LET k == VisitedAt(ret'.trace, j)
                 IN /\ Has(mgr'.connections, k)
                    /\ Get(mgr'.connections, k).wasConnected
                    /\ Get(mgr'.connections, k).auto_reconnect
                    /\ k \in EvKeys(ret'.trace, "kept")
         /\ EvKeys(ret'.trace, "raise") = {"CryptKeyMissing"}
              => /\ ret'.exc = "none"
                 /\ Range(RestoreKeys(ret'.op, mgr, session))
                      \subseteq EvKeys(ret'.trace, "visit")
                 /\ Range(RestoreKeys(ret'.op, mgr, session))
                      = KeysOf(mgr'.connections) ]_vars

\* _restore met CryptKeyMissing at both Connections of the snapshot.
C32_Witness ==
  /\ ret.op = "restore"
  /\ Cardinality(EvKeys(ret.trace, "kept")) = 2
  /\ EvKeys(ret.trace, "raise") = {"CryptKeyMissing"}

\* C34: after every update() and every release() that returns True the
\* session entry of the manager equals as_dict(): it is absent when ver is
\* None or the registry is empty, and lists exactly the registered
\* Connections otherwise.
C34_SessionFollowsManager ==
  (ret.op = "update" \/ (ret.op = "release" /\ ret.rv = "True"))
    => /\ session = as_dict(mgr)
       /\ (session = <<>>) <=> (mgr.ver = None \/ mgr.connections = <<>>)
       /\ session # <<>>
            => /\ KeysOf(session[1].connections) = KeysOf(mgr.connections)
               /\ \A k \in KeysOf(mgr.connections) :
                    <<Get(session[1].connections, k)>>
                      = conn_as_dict(Get(mgr.connections, k))

\* release() of one key returned True and left a snapshot in the session.
C34_Witness ==
  /\ ret.op = "release" /\ ret.rv = "True" /\ ret.arg = "key"
  /\ session # <<>> /\ Len(mgr.connections) = 1

\* C35: a release() call that returns False leaves the registry, ver,
\* sversion, server_type, the password, db_info, the tunnel state and the
\* session entry as they were.
C35_FailedReleaseChangesNothing ==
  \A database \in OrNone(Databases), conn_id \in OrNone(ConnIds),
     did \in OrNone(Dids) :
    LET w == release(Cur(TRUE), database, conn_id, did)
    IN w.rv = "False" => (w.m = mgr /\ w.session = session)

\* release() returned False on a manager with a Connection registered and
\* an active tunnel.
C35_Witness ==
  /\ ret.op = "release" /\ ret.rv = "False"
  /\ mgr.connections # <<>> /\ mgr.tunnel_object = "active"

\* C36: a connection() call that fails, with CryptKeyMissing,
\* ConnectionLost, SSHTunnelConnectionLost or because the database could
\* not be found, leaves the keys of the registry and pinged as they were.
C36_FailedConnectionKeepsRegistry ==
  [][ (ret'.op = "connection"
         /\ ret'.exc \in {"CryptKeyMissing", "ConnectionLost",
                          "SSHTunnelConnectionLost", "DatabaseNotFound"})
      => /\ KeySeq(mgr'.connections) = KeySeq(mgr.connections)
         /\ EvKeys(ret'.trace, "pinged") = {} ]_vars

\* connection() could not find the database on a manager that has
\* Connections registered.
C36_Witness ==
  /\ ret.op = "connection" /\ ret.exc = "DatabaseNotFound"
  /\ mgr.connections # <<>>

\* C37: every Connection in the registry has a resolved target database:
\* none is registered under the key 'DB:None' and none has database None,
\* also when the identity uses a tunnel that is alive and connection()
\* resolved no database.
C37_NoUnresolvedConnection ==
  \A i \in 1..Len(mgr.connections) :
    /\ mgr.connections[i].key # DbKey(None)
    /\ mgr.connections[i].val.db # None

\* Databases a caller can name: the one of the catalog and another one.
CallerDatabases == Databases \cup {"appdb"}

\* C38: a connection() call that returns after resolving a database returns
\* a Connection whose target database is the resolved one, also when the
\* conn_id it passes is registered already.
C38_ReturnedConnectionTargetsResolved ==
  \A database \in OrNone(CallerDatabases), conn_id \in OrNone(ConnIds),
     did \in OrNone(Dids) :
    \A o \in (IF ConnectsMaintenance(mgr, database, did)
              THEN ConnectOracles ELSE {"ok"}),
       ot \in (IF ConnectsMaintenance(mgr, database, did)
               THEN TunnelChoices(mgr) ELSE {"ok"}) :
      LET r == resolve_database(Cur(TRUE), database, did, o, ot)
          w == connection(Cur(TRUE), database, conn_id, TRUE, did, None,
                          FALSE, FALSE, o, ot)
      IN (w.exc = "none" /\ r.rv # None)
         => Get(w.m.connections, w.rv).db = r.rv

\* C33: two requests of one session ran update_session() for different
\* server ids, each with a snapshot and each having read the session as it
\* was before either wrote: once both have written back, the session holds
\* the entries of both managers, whatever the order of their steps.
C33_BothEntriesWritten ==
  (/\ Len(web.req) = 2
   /\ \A r \in 1..2 : /\ web.req[r].pc = "written"
                      /\ as_dict(web.req[r].mgr) # <<>>
                      /\ web.req[r].seen = web.before
   /\ web.req[1].sid # web.req[2].sid)
  => /\ web.store # <<>>
     /\ \A r \in 1..2 :
          /\ Has(web.store[1], web.req[r].sid)
          /\ Get(web.store[1], web.req[r].sid) = as_dict(web.req[r].mgr)[1]
====
